---- MODULE Spec2Model ----
(***************************************************************************)
(* Solar-system visualisation: the simulation clock (TimeControl), the     *)
(* camera focus machine (InteractionSystem, both variants) and the linear  *)
(* impact trajectory (AsteroidTrajectory, both variants).                  *)
(*                                                                         *)
(* Units.  Wall-clock time is counted in frames of 1/60 s.  Speed          *)
(* multipliers are kept in tenths of a day per second (REAL RATE = 0.1     *)
(* day/s = 1).  Angles are counted in units of 2*pi/219150 rad, the angle  *)
(* Earth covers in 1/60 s at 0.1 day/s, so that 2*pi = 219150 units and    *)
(* angle += multiplier * radiansPerDay * deltaTime is integer arithmetic.  *)
(* Dates are seconds since the local midnight of 1 Oct 2025; one angle     *)
(* unit is worth 144 simulated seconds.                                    *)
(***************************************************************************)
EXTENDS Integers, Sequences, FiniteSets, TLC

VARIABLES
  \* TimeControl
  isPaused, currentSpeedIndex, simulationDate, lastFrameTime, earthOrbitAngle,
  isDragging,
  \* constants.js SETTINGS (shared, mutable)
  SETTINGS,
  \* performance.now()
  now,
  \* which InteractionSystem of interactionSystem.js is loaded
  variant,
  \* InteractionSystem
  selectedPlanet, isMovingTowardsPlanet, targetCameraPosition, offset,
  isPlanetInfoVisible, isTrackingPlanet, trackedPlanet, cameraRelativePosition,
  isZoomingOut,
  \* camera.position, the OrbitControls object, the planets' place on their
  \* orbits, AnimationSystem's requestAnimationFrame chain
  cameraPosition, controls, orbitSlot, frameScheduled,
  \* observation: outcome of the pointer-down handled since the last frame,
  \* number of pointer-downs handled with no panel showing, the body whose
  \* visible panel closeInfo closed last
  lastPointerDown, pointerDowns, infoClosedFor,
  \* which AsteroidTrajectory of part_004 is loaded
  trajectoryVariant,
  \* AsteroidTrajectory
  asteroid, isActive, startPosition, endPosition, impactDate, startDate,
  trajectory, trajectoryLine,
  \* pending callbacks of triggerImpact's setTimeout, CrashVideo.isPlaying
  cleanupTimers, isPlaying,
  \* observation: triggerImpact calls since the last setupTrajectory, how the
  \* last setupTrajectory ended, number of setupTrajectory calls
  impactsFired, setupResult, setups,
  \* the objects the impact effects have in the scene, the pending
  \* setTimeout/setInterval callbacks of the impact effects
  effects, timers,
  \* applyGravitationalAcceleration on its own: its argument, and the value
  \* it returned for it
  rawProgress, easedProgress,
  \* AnimationSystem.isAnimating, the requestAnimationFrame callbacks that
  \* are pending
  isAnimating, pendingFrames,
  \* the transforms animateSun, animatePlanets, animateMoons and
  \* animateAsteroids write, other than the planets' place on their orbits
  bodies

clockRest == <<currentSpeedIndex, simulationDate, lastFrameTime,
               earthOrbitAngle, isDragging, SETTINGS, now>>

clockVars == <<isPaused, clockRest>>

interactionVars == <<selectedPlanet, isMovingTowardsPlanet, targetCameraPosition,
                     offset, isPlanetInfoVisible, isTrackingPlanet, trackedPlanet,
                     cameraRelativePosition, isZoomingOut>>

sceneVars == <<cameraPosition, controls, orbitSlot, frameScheduled>>

observedVars == <<lastPointerDown, pointerDowns, infoClosedFor>>

cameraVars == <<variant, interactionVars, sceneVars, observedVars>>

trajectoryFields == <<asteroid, isActive, startPosition, endPosition, impactDate,
                      startDate, trajectory, trajectoryLine>>

easingVars == <<rawProgress, easedProgress>>

effectVars == <<effects, timers>>

loopVars == <<isAnimating, pendingFrames>>

trajectoryVars == <<trajectoryVariant, trajectoryFields, cleanupTimers, isPlaying,
                    impactsFired, setupResult, setups, effectVars,
                    easingVars>>

vars == <<clockVars, cameraVars, trajectoryVars, loopVars, bodies>>

-----------------------------------------------------------------------------
(* Bounds of the exploration *)

MaxNow == 3

Deltas == {1, 2}

MouseXs == {-1000, 0, 49, 50, 59, 60, 199, 200, 341, 350, 351, 100000}

\* pointer-downs with no panel showing explored per run of the camera machine
MaxPointerDowns == 2

\* set-ups explored per run of the trajectory
MaxSetups == 2

\* frames explored per run of the trajectory
MaxTrajectoryNow == 5

\* frames explored per run of the impact sequence
MaxImpactNow == 3

\* impacts whose effects may be under way at the same time
MaxOverlap == 1

\* wall-clock frames explored per run of the animation loop
MaxLoopNow == 4

\* requestAnimationFrame callbacks that may be pending at the same time
MaxPending == 2

\* speed modes the trajectory runs range over: 1 day/s back, REAL RATE, 1 day/s
TrajectorySpeeds == 7 .. 9

\* samples generateTrajectoryPoints takes of the segment (100 in the source)
numPoints == 2

\* wall-clock time explored per run of the clock over a year, in frames:
\* four times 365.25 s
MaxYearNow == 87660

\* speed modes the year runs range over: 1 day/s back, REAL RATE, 1 day/s
YearSpeeds == 7 .. 9

\* wall-clock deltas of the year runs, in frames: the 365.25 s that one orbit
\* takes at 1 day/s, and twice that
YearDeltas == {365 * 60 + 15, 2 * (365 * 60 + 15)}

\* what a pointer-down can land on: "empty" is a ray that meets no target
PointerTargets == {"Sun", "Earth", "empty"}

-----------------------------------------------------------------------------
(* Arithmetic helpers *)

Abs(x) == IF x < 0 THEN -x ELSE x

Max(a, b) == IF a >= b THEN a ELSE b

Min(a, b) == IF a <= b THEN a ELSE b

\* Math.round for a non-negative rational num/den: floor(num/den + 1/2)
MathRound(num, den) == (2 * num + den) \div (2 * den)

-----------------------------------------------------------------------------
(* constants.js *)

\* multipliers of TIME_CONTROL_CONFIG.speedModes, in tenths of a day per second
speedModes ==
  << -3650, -1800, -600, -300, -140, -70, -50, -10,
     1,
     10, 50, 70, 140, 300, 600, 1800, 3650 >>

\* zero-based index of REAL RATE; the model's sequences are one-based
defaultSpeedIndex == 8

multiplier(i) == speedModes[i + 1]

\* Math.PI * 2 in angle units: 365.25 days * 10 tenths * 60 frames
TwoPi == 219150

\* simulated seconds per angle unit: 0.1 day / 60
SecondsPerAngleUnit == 144

\* new Date(2025, 9, 1)
startingDate == 0

\* new Date(2025, 9, 1, 6, 39, 36)
initialSimulationDate == 23976

startingOrbitAngle == 0

\* SETTINGS values are a + b * (2*pi/219150), written <<a, b>>; the literal 1
\* of constants.js is <<1, 0>>.  acceleration is in tenths.
Num(a, b) == <<a, b>>

Zero == Num(0, 0)

InitialSettings == [accelerationOrbit |-> Num(1, 0), acceleration |-> 10]

-----------------------------------------------------------------------------
(* TimeControl *)

getCurrentSpeed == IF isPaused THEN 0 ELSE multiplier(currentSpeedIndex)

\* the acceleration that would fit a renderer of 30 frames a second
requiredAccelerationAt30fps(speedMultiplier) == 500 * Abs(speedMultiplier)

\* (Math.PI * 2) / (0.001 * (365.25 / |m|) * 60), in units of 2*pi/219150:
\* 2*pi*1000*|m| / 21915 = 1000 * |10 m| * (2*pi / 219150)
requiredAcceleration(speedMultiplier) == 1000 * Abs(speedMultiplier)

\* targetSecondsForOneOrbit * 60, in frames; whole for the multipliers that
\* divide 2*pi
targetFramesForOneOrbit(speedMultiplier) == TwoPi \div Abs(speedMultiplier)

\* a direction that ignores the sign of the multiplier
directionForward(speedMultiplier) == 1

directionMultiplier(speedMultiplier) == IF speedMultiplier >= 0 THEN 1 ELSE -1

\* daysElapsed * 24 * 60 * 60 * 1000 for a total orbit angle, in date units
millisecondsElapsed(totalOrbitAngle) == totalOrbitAngle * SecondsPerAngleUnit

prevSpeedClick ==
  /\ currentSpeedIndex' =
       IF currentSpeedIndex > 0 THEN currentSpeedIndex - 1 ELSE currentSpeedIndex
  /\ UNCHANGED <<isPaused, simulationDate, lastFrameTime, earthOrbitAngle,
                 isDragging, SETTINGS, now>>

nextSpeedClick ==
  /\ currentSpeedIndex' =
       IF currentSpeedIndex < Len(speedModes) - 1
       THEN currentSpeedIndex + 1 ELSE currentSpeedIndex
  /\ UNCHANGED <<isPaused, simulationDate, lastFrameTime, earthOrbitAngle,
                 isDragging, SETTINGS, now>>

indicatorMouseDown ==
  /\ isDragging' = TRUE
  /\ UNCHANGED <<isPaused, currentSpeedIndex, simulationDate, lastFrameTime,
                 earthOrbitAngle, SETTINGS, now>>

documentMouseUp ==
  /\ isDragging' = FALSE
  /\ UNCHANGED <<isPaused, currentSpeedIndex, simulationDate, lastFrameTime,
                 earthOrbitAngle, SETTINGS, now>>

\* the drag handler without its clamp to the curve bounds
unclampedX(mouseX) == mouseX

clampedX(mouseX) == Max(50, Min(350, mouseX))

\* Math.round(((clampedX - 50) / (350 - 50)) * (speedModes.length - 1))
dragSpeedIndex(mouseX) ==
  MathRound((clampedX(mouseX) - 50) * (Len(speedModes) - 1), 350 - 50)

documentMouseMove(mouseX) ==
  /\ currentSpeedIndex' =
       IF isDragging THEN dragSpeedIndex(mouseX) ELSE currentSpeedIndex
  /\ UNCHANGED <<isPaused, simulationDate, lastFrameTime, earthOrbitAngle,
                 isDragging, SETTINGS, now>>

togglePause ==
  /\ isPaused' = ~isPaused
  /\ UNCHANGED <<currentSpeedIndex, simulationDate, lastFrameTime,
                 earthOrbitAngle, isDragging, SETTINGS, now>>

\* a pause() that does nothing
pauseSkipped == FALSE

\* isPaused once pause() has run
afterPause == TRUE

\* a resume() that does nothing
resumeSkipped == isPaused

\* isPaused once resume() has run
afterResume == FALSE

pause ==
  /\ isPaused' = afterPause
  /\ UNCHANGED <<currentSpeedIndex, simulationDate, lastFrameTime,
                 earthOrbitAngle, isDragging, SETTINGS, now>>

resume ==
  /\ isPaused' = afterResume
  /\ UNCHANGED <<currentSpeedIndex, simulationDate, lastFrameTime,
                 earthOrbitAngle, isDragging, SETTINGS, now>>

\* updateSimulationTime whose paused branch forgets to zero SETTINGS
updateSimulationTimeKeepsSettings(elapsed) ==
  LET currentTime == now + elapsed
      deltaTime == currentTime - lastFrameTime
      speedMultiplier == getCurrentSpeed
      angle == earthOrbitAngle + speedMultiplier * deltaTime
  IN /\ now' = currentTime
     /\ lastFrameTime' = currentTime
     /\ IF ~isPaused
        THEN /\ earthOrbitAngle' = angle
             /\ simulationDate' =
                  startingDate + millisecondsElapsed(angle - startingOrbitAngle)
             /\ SETTINGS' =
                  [accelerationOrbit |->
                     Num(0, requiredAcceleration(speedMultiplier)
                              * directionMultiplier(speedMultiplier)),
                   acceleration |->
                     Abs(speedMultiplier) * directionMultiplier(speedMultiplier)]
        ELSE UNCHANGED <<SETTINGS, earthOrbitAngle, simulationDate>>
     /\ UNCHANGED <<isPaused, currentSpeedIndex, isDragging>>

\* one call of updateSimulationTime, performance.now() having advanced by
\* elapsed frames since the previous reading
\* a tick that keeps lastFrameTime while the clock is paused
lastFrameTimeKeptWhilePaused(currentTime) ==
  IF isPaused THEN lastFrameTime ELSE currentTime

\* this.lastFrameTime = currentTime, on every tick
newLastFrameTime(currentTime) == currentTime

updateSimulationTime(elapsed) ==
  LET currentTime == now + elapsed
      deltaTime == currentTime - lastFrameTime
      speedMultiplier == getCurrentSpeed
      angle == earthOrbitAngle + speedMultiplier * deltaTime
  IN /\ now' = currentTime
     /\ lastFrameTime' = newLastFrameTime(currentTime)
     /\ IF ~isPaused
        THEN /\ earthOrbitAngle' = angle
             /\ simulationDate' =
                  startingDate + millisecondsElapsed(angle - startingOrbitAngle)
             /\ SETTINGS' =
                  [accelerationOrbit |->
                     Num(0, requiredAcceleration(speedMultiplier)
                              * directionMultiplier(speedMultiplier)),
                   acceleration |->
                     Abs(speedMultiplier) * directionMultiplier(speedMultiplier)]
        ELSE /\ SETTINGS' = [accelerationOrbit |-> Zero, acceleration |-> 0]
             /\ UNCHANGED <<earthOrbitAngle, simulationDate>>
     /\ UNCHANGED <<isPaused, currentSpeedIndex, isDragging>>

-----------------------------------------------------------------------------
(* THREE.Vector3 over integers: Scale model units to one world unit *)

Scale == 2 ^ 5

Vec(x, y, z) == <<x, y, z>>

Origin == Vec(0, 0, 0)

World(x, y, z) == Vec(x * Scale, y * Scale, z * Scale)

add(a, b) == [i \in 1 .. 3 |-> a[i] + b[i]]

sub(a, b) == [i \in 1 .. 3 |-> a[i] - b[i]]

lengthSq(v) == v[1] * v[1] + v[2] * v[2] + v[3] * v[3]

\* n / d rounded to the nearest integer, d > 0
RoundDiv(n, d) ==
  IF n >= 0 THEN (2 * n + d) \div (2 * d) ELSE -((2 * (-n) + d) \div (2 * d))

RECURSIVE SqrtBetween(_, _, _)
SqrtBetween(n, lo, hi) ==
  IF lo >= hi THEN lo
  ELSE LET mid == (lo + hi + 1) \div 2
       IN IF mid * mid <= n THEN SqrtBetween(n, mid, hi)
          ELSE SqrtBetween(n, lo, mid - 1)

\* floor of the square root, for n < 2^31
Sqrt(n) == SqrtBetween(n, 0, 46340)

length(v) == Sqrt(lengthSq(v))

\* v.normalize().multiplyScalar(s): normalize divides by (length || 1), so
\* the zero vector stays zero
normalizeTimes(v, s) ==
  LET len == IF length(v) = 0 THEN 1 ELSE length(v)
  IN [i \in 1 .. 3 |-> RoundDiv(v[i] * s * Scale, len)]

\* a.lerp(b, percent / 100)
lerp(a, b, percent) ==
  [i \in 1 .. 3 |-> a[i] + RoundDiv((b[i] - a[i]) * percent, 100)]

\* a.distanceTo(b) < 1
closerThanOne(a, b) == lengthSq(sub(a, b)) < Scale * Scale

-----------------------------------------------------------------------------
(* The scene: camera configuration and the planets on their orbits *)

\* CAMERA_CONFIG.initialPosition and CAMERA_CONFIG.zoomOutPosition
initialPosition == World(-175, 115, 5)

zoomOutTargetPosition == World(-175, 115, 5)

\* the overhead offset startPlanetTracking stores
overheadOffset == World(-175, 115, 5)

\* orbit radius of createPlanet, in world units
orbitRadius(name) ==
  CASE name = "Mercury" -> 40
    [] name = "Venus" -> 65
    [] name = "Earth" -> 90
    [] name = "Mars" -> 115
    [] name = "Jupiter" -> 200
    [] name = "Saturn" -> 270
    [] name = "Uranus" -> 320
    [] name = "Neptune" -> 340
    [] name = "Pluto" -> 350
    [] OTHER -> 0

\* the orbit is sampled at its four axis crossings
OrbitDirections == << Vec(1, 0, 0), Vec(0, 0, -1), Vec(-1, 0, 0), Vec(0, 0, 1) >>

\* planet.getWorldPosition() with planet3d rotated to the given slot
getWorldPosition(name, slot) ==
  LET dir == OrbitDirections[slot + 1]
      r == orbitRadius(name) * Scale
  IN Vec(dir[1] * r, dir[2] * r, dir[3] * r)

\* Earth's planet3d.rotateY(0.001 * SETTINGS.accelerationOrbit) of one frame,
\* in angle units, for settings an unpaused or paused tick has written
earthOrbitRotation(settings) == settings.accelerationOrbit[2] \div 1000

\* animatePlanets: planet3d.rotateY(orbit * SETTINGS.accelerationOrbit), which
\* the tick of the same frame has set to 0 exactly when the clock is paused
animatePlanets(slot) ==
  IF isPaused THEN slot ELSE (slot + 1) % Len(OrbitDirections)

-----------------------------------------------------------------------------
(* InteractionSystem, tracking variant and zoom-out variant *)

Variants == {"tracking", "zoomOut"}

\* getCameraOffset
getCameraOffset(name) ==
  CASE name = "Sun" /\ variant = "tracking" -> 80
    [] name = "Mercury" -> 10
    [] name = "Venus" -> 25
    [] name = "Earth" -> 25
    [] name = "Mars" -> 15
    [] name = "Jupiter" -> 50
    [] name = "Saturn" -> 50
    [] name = "Uranus" -> 25
    [] name = "Neptune" -> 20
    [] name = "Pluto" -> 10
    [] OTHER -> 20

\* identifyPlanet: the body a clicked object belongs to, "null" for none; the
\* zoom-out variant does not know the Sun
identifyPlanet(clickedObject) ==
  IF clickedObject = "Sun"
  THEN IF variant = "tracking" THEN "Sun" ELSE "null"
  ELSE clickedObject

\* position of the selected body: the Sun is at the origin
bodyPosition(name, slot) ==
  IF name = "Sun" THEN Origin ELSE getWorldPosition(name, slot)

\* a lerp factor that carries the camera past the target, as far beyond it
\* as it was short of it
moveLerpOvershoot == 2 * 100

\* lerp factors of updateCameraMovement, in percent
moveLerp == IF variant = "tracking" THEN 7 ELSE 3

zoomOutLerp == IF variant = "tracking" THEN 8 ELSE 5

\* stopPlanetTracking, which only the tracking variant has
stopPlanetTracking ==
  IF variant = "tracking"
  THEN /\ isTrackingPlanet' = FALSE
       /\ trackedPlanet' = "null"
       /\ cameraRelativePosition' = Origin
  ELSE UNCHANGED <<isTrackingPlanet, trackedPlanet, cameraRelativePosition>>

\* the controls once freeCameraControls has run; only the tracking variant
\* touches the enable flags
freeCameraControls(target) ==
  [enabled |-> IF variant = "tracking" THEN TRUE ELSE controls.enabled,
   target |-> target]

\* a pointer-down handler without its early return
panelNeverBlocks == FALSE

\* the early return of onMouseDown
panelBlocksPointer == isPlanetInfoVisible

\* a pointer-down whose ray meets clicked first ("empty": meets nothing)
onMouseDown(clicked) ==
  IF panelBlocksPointer
  THEN /\ lastPointerDown' = "ignored"
       /\ UNCHANGED <<isPaused, interactionVars, sceneVars, pointerDowns,
                      infoClosedFor>>
  ELSE IF pointerDowns >= MaxPointerDowns
  THEN FALSE
  ELSE IF clicked # "empty"
  THEN LET body == identifyPlanet(clicked)
           position == bodyPosition(body, orbitSlot)
       IN IF body # "null"
          THEN /\ selectedPlanet' = body
               /\ offset' = getCameraOffset(body)
               \* closeInfoNoZoomOut
               /\ isPlanetInfoVisible' = FALSE
               /\ stopPlanetTracking
               \* timeControl.resume() of closeInfoNoZoomOut, then
               \* timeControl.pause()
               /\ isPaused' = afterPause
               /\ controls' = freeCameraControls(position)
               /\ targetCameraPosition' =
                    add(position,
                        normalizeTimes(sub(cameraPosition, position),
                                       getCameraOffset(body)))
               /\ isMovingTowardsPlanet' = TRUE
               /\ pointerDowns' = pointerDowns + 1
               /\ lastPointerDown' = "selected"
               /\ infoClosedFor' = "null"
               /\ UNCHANGED <<isZoomingOut, cameraPosition, orbitSlot,
                              frameScheduled>>
          ELSE /\ selectedPlanet' = "null"
               /\ lastPointerDown' = "unidentified"
               /\ pointerDowns' = pointerDowns + 1
               /\ UNCHANGED <<isPaused, isMovingTowardsPlanet,
                              targetCameraPosition, offset, isPlanetInfoVisible,
                              isTrackingPlanet, trackedPlanet,
                              cameraRelativePosition, isZoomingOut, sceneVars,
                              infoClosedFor>>
  ELSE IF variant = "tracking"
  THEN \* stopPlanetTracking, closeInfoNoZoomOut, freeCameraControls
       /\ stopPlanetTracking
       /\ isPlanetInfoVisible' = FALSE
       /\ isPaused' = afterResume
       /\ controls' = freeCameraControls(controls.target)
       /\ lastPointerDown' = "empty"
       /\ pointerDowns' = pointerDowns + 1
       /\ infoClosedFor' = "null"
       /\ UNCHANGED <<selectedPlanet, isMovingTowardsPlanet,
                      targetCameraPosition, offset, isZoomingOut,
                      cameraPosition, orbitSlot, frameScheduled>>
  ELSE /\ lastPointerDown' = "empty"
       /\ pointerDowns' = pointerDowns + 1
       /\ infoClosedFor' = "null"
       /\ UNCHANGED <<isPaused, interactionVars, sceneVars>>

\* window.closeInfo()
closeInfo ==
  /\ isPlanetInfoVisible' = FALSE
  /\ IF variant = "tracking"
     THEN IF selectedPlanet \notin {"null", "Sun"}
          THEN \* startPlanetTracking
               LET planetPosition == getWorldPosition(selectedPlanet, orbitSlot)
               IN /\ isTrackingPlanet' = TRUE
                  /\ trackedPlanet' = selectedPlanet
                  /\ cameraPosition' = add(planetPosition, overheadOffset)
                  /\ controls' = freeCameraControls(planetPosition)
                  /\ cameraRelativePosition' = overheadOffset
                  /\ UNCHANGED isZoomingOut
          ELSE /\ isZoomingOut' = TRUE
               /\ controls' = freeCameraControls(controls.target)
               /\ UNCHANGED <<isTrackingPlanet, trackedPlanet,
                              cameraRelativePosition, cameraPosition>>
     ELSE /\ isZoomingOut' = TRUE
          /\ controls' = [controls EXCEPT !.target = Origin]
          /\ UNCHANGED <<isTrackingPlanet, trackedPlanet,
                         cameraRelativePosition, cameraPosition>>
  /\ isPaused' = afterResume
  /\ infoClosedFor' =
       IF isPlanetInfoVisible THEN selectedPlanet ELSE infoClosedFor
  /\ UNCHANGED <<selectedPlanet, isMovingTowardsPlanet, targetCameraPosition,
                 offset, orbitSlot, frameScheduled, lastPointerDown,
                 pointerDowns>>

\* updateCameraMovement, the planets standing at slot.  Reading
\* this.selectedPlanet.name of a null selection throws, and the exception
\* leaves animate() before it requests the next frame.
updateCameraMovement(slot) ==
  IF isMovingTowardsPlanet
  THEN LET position == lerp(cameraPosition, targetCameraPosition, moveLerp)
       IN /\ cameraPosition' = position
          /\ IF closerThanOne(position, targetCameraPosition)
             THEN /\ isMovingTowardsPlanet' = FALSE
                  /\ IF selectedPlanet = "null"
                     THEN /\ frameScheduled' = FALSE
                          /\ UNCHANGED isPlanetInfoVisible
                     ELSE \* showPlanetInfo
                          /\ isPlanetInfoVisible' = TRUE
                          /\ UNCHANGED frameScheduled
             ELSE UNCHANGED <<isMovingTowardsPlanet, isPlanetInfoVisible,
                              frameScheduled>>
          /\ UNCHANGED <<isZoomingOut, controls>>
  ELSE IF isZoomingOut
  THEN LET position == lerp(cameraPosition, zoomOutTargetPosition, zoomOutLerp)
       IN /\ cameraPosition' = position
          /\ IF closerThanOne(position, zoomOutTargetPosition)
             THEN /\ isZoomingOut' = FALSE
                  /\ controls' = freeCameraControls(controls.target)
             ELSE UNCHANGED <<isZoomingOut, controls>>
          /\ UNCHANGED <<isMovingTowardsPlanet, isPlanetInfoVisible,
                         frameScheduled>>
  ELSE IF variant = "tracking" /\ isTrackingPlanet /\ trackedPlanet # "null"
  THEN \* updatePlanetTracking
       /\ cameraPosition' =
            add(getWorldPosition(trackedPlanet, slot), cameraRelativePosition)
       /\ UNCHANGED <<isMovingTowardsPlanet, isPlanetInfoVisible, isZoomingOut,
                      controls, frameScheduled>>
  ELSE UNCHANGED <<cameraPosition, isMovingTowardsPlanet, isPlanetInfoVisible,
                   isZoomingOut, controls, frameScheduled>>

\* one animate() frame as the camera sees it: the planets move unless the
\* clock is paused, then updateCameraMovement runs
animate ==
  /\ frameScheduled
  /\ orbitSlot' = animatePlanets(orbitSlot)
  /\ updateCameraMovement(orbitSlot')
  /\ lastPointerDown' = "none"
  /\ UNCHANGED <<isPaused, selectedPlanet, targetCameraPosition, offset,
                 isTrackingPlanet, trackedPlanet, cameraRelativePosition,
                 pointerDowns, infoClosedFor>>

-----------------------------------------------------------------------------
(* AsteroidTrajectory, simple variant and enhanced variant *)

TrajectoryVariants == {"simple", "enhanced"}

\* JavaScript dates: a Date with its time value, null, and the Invalid Date
\* new Date(undefined) makes
Date(time) == <<"Date", time>>

NullDate == <<"null">>

InvalidDate == <<"Invalid Date">>

undefined == <<"undefined">>

\* new Date(value)
newDate(value) == IF value = undefined THEN InvalidDate ELSE value

\* a >= b and a < b on dates: every comparison with NaN is false
dateGE(a, b) == a[1] = "Date" /\ b[1] = "Date" /\ a[2] >= b[2]

dateLT(a, b) == a[1] = "Date" /\ b[1] = "Date" /\ a[2] < b[2]

\* a vector whose components are NaN
NaNVector == <<"NaN">>

\* scene objects: a mesh at a position, or null
Mesh(position) == <<"Mesh", position>>

null == <<"null">>

\* progress is kept in thousandths
ProgressScale == 10 ^ 3

\* the progress NaN, apart from every value of [0, ProgressScale]
NaN == 0 - 1

\* progress measured back from the impact date: the journey run in reverse
progressFromImpact(currentDate, start, impact) ==
  IF impact[1] # "Date" THEN NaN
  ELSE LET totalTime == start[2] - impact[2]
           elapsed == currentDate[2] - impact[2]
       IN IF totalTime = 0 \/ (elapsed >= 0) # (totalTime > 0) THEN 0
          ELSE Max(0, Min(ProgressScale,
                          RoundDiv(Abs(elapsed) * ProgressScale, Abs(totalTime))))

\* Math.max(0, Math.min(1, elapsed / totalTime)), NaN when a date is invalid;
\* a zero totalTime divides to +-Infinity, or to NaN when elapsed is 0 too
linearProgress(currentDate, start, impact) ==
  IF impact[1] # "Date" THEN NaN
  ELSE LET totalTime == impact[2] - start[2]
           elapsed == currentDate[2] - start[2]
       IN IF totalTime = 0
          THEN IF elapsed = 0 THEN NaN ELSE IF elapsed > 0 THEN ProgressScale ELSE 0
          ELSE IF (elapsed >= 0) # (totalTime > 0) /\ elapsed # 0 THEN 0
          ELSE Max(0, Min(ProgressScale,
                          RoundDiv(Abs(elapsed) * ProgressScale, Abs(totalTime))))

\* the easing without the 0.7 it starts from
accelerationWithoutBase(progress) ==
  IF progress = NaN THEN NaN
  ELSE IF progress * 10 > 7 * ProgressScale
  THEN RoundDiv((10 * progress - 7 * ProgressScale)
                  * (10 * progress - 7 * ProgressScale),
                30 * ProgressScale)
  ELSE progress

\* applyGravitationalAcceleration of the enhanced variant: quadratic easing
\* over the last 30% of the journey
applyGravitationalAcceleration(progress) ==
  IF progress = NaN THEN NaN
  ELSE IF progress * 10 > 7 * ProgressScale
  THEN (7 * ProgressScale) \div 10
       + RoundDiv((10 * progress - 7 * ProgressScale)
                    * (10 * progress - 7 * ProgressScale),
                  30 * ProgressScale)
  ELSE progress

\* new THREE.Vector3().lerpVectors(a, b, progress)
lerpVectors(a, b, progress) ==
  IF progress = NaN THEN NaNVector
  ELSE [i \in 1 .. 3 |-> a[i] + RoundDiv((b[i] - a[i]) * progress, ProgressScale)]

\* Math.sin and Math.cos in ten-thousandths, for an angle in half angle units
\* (4*pi = 438300 half units): the angle is reduced to a quarter turn, then to
\* [0, pi/4] radians in ten-thousandths, where the power series is summed
TrigScale == 10 ^ 4

QuarterTurn == TwoPi \div 2

radians(r) == (r * 15708) \div QuarterTurn

sinSeries(x) ==
  LET x2 == RoundDiv(x * x, TrigScale)
      x3 == RoundDiv(x2 * x, TrigScale)
      x5 == RoundDiv(x3 * x2, TrigScale)
      x7 == RoundDiv(x5 * x2, TrigScale)
  IN x - RoundDiv(x3, 6) + RoundDiv(x5, 120) - RoundDiv(x7, 5040)

cosSeries(x) ==
  LET x2 == RoundDiv(x * x, TrigScale)
      x4 == RoundDiv(x2 * x2, TrigScale)
      x6 == RoundDiv(x4 * x2, TrigScale)
  IN TrigScale - RoundDiv(x2, 2) + RoundDiv(x4, 24) - RoundDiv(x6, 720)

sinQuarter(r) ==
  LET x == radians(r)
  IN IF x <= 7854 THEN sinSeries(x) ELSE cosSeries(15708 - x)

cosQuarter(r) == sinQuarter(QuarterTurn - r)

MathSin(h) ==
  LET t == h % (4 * QuarterTurn)
      q == t \div QuarterTurn
      r == t % QuarterTurn
  IN CASE q = 0 -> sinQuarter(r)
       [] q = 1 -> cosQuarter(r)
       [] q = 2 -> -sinQuarter(r)
       [] OTHER -> -cosQuarter(r)

MathCos(h) == MathSin(h + QuarterTurn)

\* earthOrbitRadius of calculateEarthPosition, in world units
earthOrbitRadius == 90

\* calculateEarthPosition(date): Earth on a circle around the Sun, one turn in
\* 365.25 days from the epoch new Date(2025, 9, 1)
calculateEarthPosition(date) ==
  IF date[1] # "Date" THEN NaNVector
  ELSE LET h == RoundDiv(2 * (date[2] - startingDate), SecondsPerAngleUnit)
       IN Vec(RoundDiv(MathCos(h) * earthOrbitRadius * Scale, TrigScale),
              0,
              RoundDiv(MathSin(h) * earthOrbitRadius * Scale, TrigScale))

\* the configurations setupTrajectory is handed: two well-formed ones, the
\* documented {startXYZ, impactDate} shape, one without impactDate and one
\* without endPosition
ASTEROIDS_CONFIG ==
  << [startPosition |-> World(180, 60, 120), endPosition |-> World(92, -6, 18),
      impactDate |-> Date(288)],
     [startPosition |-> World(-140, 90, -180), endPosition |-> World(95, -8, -12),
      impactDate |-> Date(2880)] >>

documentedShape ==
  [startPosition |-> undefined, endPosition |-> undefined,
   impactDate |-> Date(288)]

withoutImpactDate ==
  [startPosition |-> World(180, 60, 120), endPosition |-> World(92, -6, 18),
   impactDate |-> undefined]

withoutEndPosition ==
  [startPosition |-> World(180, 60, 120), endPosition |-> undefined,
   impactDate |-> Date(288)]

MalformedConfigs == {documentedShape, withoutImpactDate, withoutEndPosition}

Configs == {ASTEROIDS_CONFIG[i] : i \in 1 .. Len(ASTEROIDS_CONFIG)}
             \cup MalformedConfigs

\* generateTrajectoryPoints: numPoints + 1 samples of the segment
generateTrajectoryPoints(start, end, startAt, impactAt) ==
  [i \in 1 .. numPoints + 1 |->
     LET t == ((i - 1) * ProgressScale) \div numPoints
     IN [position |-> lerpVectors(start, end, t),
         date |-> IF impactAt[1] = "Date"
                  THEN Date(startAt[2]
                              + RoundDiv((impactAt[2] - startAt[2]) * t,
                                         ProgressScale))
                  ELSE InvalidDate,
         progress |-> t]]

\* the progress update() interpolates with at currentDate
progressAt(currentDate) ==
  IF trajectoryVariant = "enhanced"
  THEN applyGravitationalAcceleration(
         linearProgress(currentDate, startDate, impactDate))
  ELSE linearProgress(currentDate, startDate, impactDate)

\* the asteroid's place on its way at currentDate
positionAt(currentDate) ==
  LET progress == linearProgress(currentDate, startDate, impactDate)
  IN lerpVectors(startPosition, endPosition,
                 IF trajectoryVariant = "enhanced"
                 THEN applyGravitationalAcceleration(progress)
                 ELSE progress)

\* the first test of update()
impactPassed(currentDate) == dateGE(currentDate, impactDate) /\ currentDate # impactDate

impactReached(currentDate) == dateGE(currentDate, impactDate)

\* an object an impact effect adds to the scene; impact is the frame time of
\* the triggerImpact call it stems from
Effect(kind, impact, index) == [kind |-> kind, impact |-> impact, index |-> index]

\* a pending setTimeout or setInterval callback: delay in ms until it is due,
\* ticks the number of times an interval callback has run
Timer(callback, impact, index, delay, ticks) ==
  [callback |-> callback, impact |-> impact, index |-> index,
   delay |-> delay, ticks |-> ticks]

\* createInitialFlash: the flash and its 40 ms interval
createInitialFlash(impact) ==
  [added |-> {Effect("flash", impact, 0)},
   scheduled |-> {Timer("flashInterval", impact, 0, 40, 0)}]

\* createMainExplosion: the particles and their 16 ms interval
createMainExplosion(impact) ==
  [added |-> {Effect("explosion", impact, 0)},
   scheduled |-> {Timer("explosionInterval", impact, 0, 16, 0)}]

\* createShockwave: the ring and its 50 ms interval
createShockwave(impact) ==
  [added |-> {Effect("shockwave", impact, 0)},
   scheduled |-> {Timer("shockwaveInterval", impact, 0, 50, 0)}]

\* createDebrisCloud: the group and the 4000 ms timeout that removes it
createDebrisCloud(impact) ==
  [added |-> {Effect("debrisGroup", impact, 0)},
   scheduled |-> {Timer("removeDebrisGroup", impact, 0, 4000, 0)}]

numSecondary == 2

\* createSecondaryExplosions: one timeout per secondary explosion, 300 ms
\* apart
createSecondaryExplosions(impact) ==
  [added |-> {},
   scheduled |-> {Timer("createSecondaryExplosion", impact, i, i * 300, 0) :
                    i \in 0 .. numSecondary - 1}]

\* createSecondaryExplosion: the particles and the 1500 ms timeout that
\* removes them
createSecondaryExplosion(impact, index) ==
  [added |-> {Effect("secondaryExplosion", impact, index)},
   scheduled |-> {Timer("removeSecondaryExplosion", impact, index, 1500, 0)}]

\* createScreenEffects: the 16 ms camera-shake interval
createScreenEffects(impact) ==
  [added |-> {},
   scheduled |-> {Timer("shakeInterval", impact, 0, 16, 0)}]

\* a scene whose userData carries the camera
userDataCameraSet == TRUE

\* scene.userData.camera, which the shake interval moves when it is set;
\* nothing sets it
sceneUserDataCamera == FALSE

\* the random displacements of one shake: each coordinate a unit back, none,
\* or a unit forth
ShakeOffsets == {Vec(x, y, z) : x, y, z \in {0 - Scale, 0, Scale}}

\* what one run of an interval callback decides: TRUE when it removes its
\* object (or, for the shake, just stops) and clears itself.  Opacities in
\* hundredths, scales in tenths, the shake intensity in millionths.
flashDone(ticks) == 80 - 15 * ticks <= 0

explosionDone(ticks) == ticks >= 120

shockwaveDone(ticks) == 60 - 6 * ticks <= 0 \/ 1 + 15 * ticks >= 150

RECURSIVE shakeIntensity(_)
shakeIntensity(ticks) ==
  IF ticks = 0 THEN 5 * 10 ^ 6 ELSE (shakeIntensity(ticks - 1) * 95) \div 100

shakeDone(ticks) == ticks >= 100 \/ shakeIntensity(ticks) < 10 ^ 5

intervalDone(t) ==
  CASE t.callback = "flashInterval" -> flashDone(t.ticks + 1)
    [] t.callback = "explosionInterval" -> explosionDone(t.ticks + 1)
    [] t.callback = "shockwaveInterval" -> shockwaveDone(t.ticks + 1)
    [] t.callback = "shakeInterval" -> shakeDone(t.ticks + 1)

\* the objects held if only the interval callbacks kept theirs
ownedByInterval(t) ==
  CASE t.callback = "flashInterval" -> {Effect("flash", t.impact, 0)}
    [] t.callback = "explosionInterval" -> {Effect("explosion", t.impact, 0)}
    [] t.callback = "shockwaveInterval" -> {Effect("shockwave", t.impact, 0)}
    [] OTHER -> {}

\* the object an interval or a removing timeout holds in its closure
ownedEffect(t) ==
  CASE t.callback = "flashInterval" -> {Effect("flash", t.impact, 0)}
    [] t.callback = "explosionInterval" -> {Effect("explosion", t.impact, 0)}
    [] t.callback = "shockwaveInterval" -> {Effect("shockwave", t.impact, 0)}
    [] t.callback = "removeDebrisGroup" -> {Effect("debrisGroup", t.impact, 0)}
    [] t.callback = "removeSecondaryExplosion" ->
         {Effect("secondaryExplosion", t.impact, t.index)}
    [] t.callback = "removeExplosion" -> {Effect("explosion", t.impact, 0)}
    [] OTHER -> {}

intervalPeriod(t) ==
  CASE t.callback = "flashInterval" -> 40
    [] t.callback = "explosionInterval" -> 16
    [] t.callback = "shockwaveInterval" -> 50
    [] t.callback = "shakeInterval" -> 16

IntervalCallbacks ==
  {"flashInterval", "explosionInterval", "shockwaveInterval", "shakeInterval"}

\* the result of running the callback of timer t: the objects it adds and
\* removes, the timers it schedules (an interval that goes on is due again
\* one period later)
runCallback(t) ==
  IF t.callback \in IntervalCallbacks
  THEN IF intervalDone(t)
       THEN [added |-> {}, removed |-> ownedEffect(t), scheduled |-> {}]
       ELSE [added |-> {}, removed |-> {},
             scheduled |-> {[t EXCEPT !.delay = intervalPeriod(t),
                                     !.ticks = t.ticks + 1]}]
  ELSE CASE t.callback = "createShockwave" ->
              [removed |-> {}] @@ createShockwave(t.impact)
         [] t.callback = "createDebrisCloud" ->
              [removed |-> {}] @@ createDebrisCloud(t.impact)
         [] t.callback = "createSecondaryExplosions" ->
              [removed |-> {}] @@ createSecondaryExplosions(t.impact)
         [] t.callback = "createSecondaryExplosion" ->
              [removed |-> {}] @@ createSecondaryExplosion(t.impact, t.index)
         [] OTHER ->
              [added |-> {}, removed |-> ownedEffect(t), scheduled |-> {}]

\* the timers after ms have gone by
elapse(ts, ms) == {[t EXCEPT !.delay = t.delay - ms] : t \in ts}

\* the browser runs the callback that is due first: the other timers are
\* that much nearer, its object changes are applied to the scene
timerFires ==
  \E t \in timers :
    /\ \A u \in timers : t.delay <= u.delay
    /\ LET ran == runCallback(t)
       IN /\ effects' = (effects \ ran.removed) \cup ran.added
          /\ timers' = elapse(timers \ {t}, t.delay) \cup ran.scheduled
    /\ IF t.callback = "shakeInterval" /\ sceneUserDataCamera
       THEN \E s \in ShakeOffsets : cameraPosition' = add(cameraPosition, s)
       ELSE UNCHANGED cameraPosition

\* createImpactEffects called in the frame that ends at now': the enhanced
\* variant starts the flash, the main explosion and the shake and schedules
\* the shockwave, the debris cloud and the secondary explosions; the simple
\* variant adds one explosion and the 3000 ms timeout that removes it
createImpactEffects ==
  LET impact == now'
  IN IF trajectoryVariant = "simple"
     THEN /\ effects' = effects \cup {Effect("explosion", impact, 0)}
          /\ timers' = timers \cup {Timer("removeExplosion", impact, 0, 3000, 0)}
     ELSE /\ effects' = effects \cup createInitialFlash(impact).added
                                \cup createMainExplosion(impact).added
          /\ timers' = timers \cup createInitialFlash(impact).scheduled
                              \cup createMainExplosion(impact).scheduled
                              \cup {Timer("createShockwave", impact, 0, 200, 0),
                                    Timer("createDebrisCloud", impact, 0, 500, 0),
                                    Timer("createSecondaryExplosions", impact, 0,
                                          1000, 0)}
                              \cup createScreenEffects(impact).scheduled

\* triggerImpact: the simple variant deactivates at once; the enhanced
\* variant leaves that to a callback it schedules 1000 ms ahead
triggerImpact ==
  /\ asteroid' = Mesh(endPosition)
  /\ impactsFired' = impactsFired + 1
  /\ createImpactEffects
  /\ IF trajectoryVariant = "simple"
     THEN isActive' = FALSE /\ UNCHANGED cleanupTimers
     ELSE cleanupTimers' = cleanupTimers + 1 /\ UNCHANGED isActive
  /\ UNCHANGED <<startPosition, endPosition, impactDate, startDate, trajectory,
                 trajectoryLine, isPlaying, setupResult, setups>>

\* update() reading currentDate from the clock
update(currentDate) ==
  IF ~isActive \/ asteroid = null \/ Len(trajectory) = 0
  THEN UNCHANGED <<trajectoryFields, cleanupTimers, isPlaying, impactsFired,
                   setupResult, setups, effectVars>>
  ELSE IF impactReached(currentDate)
  THEN triggerImpact
  ELSE /\ asteroid' =
            IF dateLT(currentDate, startDate)
            THEN Mesh(startPosition)
            ELSE Mesh(positionAt(currentDate))
       /\ UNCHANGED <<isActive, startPosition, endPosition, impactDate,
                      startDate, trajectory, trajectoryLine, cleanupTimers,
                      isPlaying, impactsFired, setupResult, setups,
                      effectVars>>

\* AnimationSystem.updateAsteroidTrajectory
updateAsteroidTrajectory(currentDate) ==
  IF isActive
  THEN update(currentDate)
  ELSE UNCHANGED <<trajectoryFields, cleanupTimers, isPlaying, impactsFired,
                   setupResult, setups, effectVars>>

\* setupTrajectory(config).  Reading .x of a missing startPosition throws
\* before anything is stored; reading .x of a missing endPosition throws after
\* startPosition, impactDate and startDate are stored; otherwise it returns
\* true.
setupTrajectory(config) ==
  /\ setups' = setups + 1
  /\ IF config.startPosition = undefined
     THEN /\ setupResult' = "TypeError"
          /\ UNCHANGED <<trajectoryFields, impactsFired>>
     ELSE /\ startPosition' = config.startPosition
          /\ impactDate' = newDate(config.impactDate)
          /\ startDate' = Date(simulationDate)
          /\ IF config.endPosition = undefined
             THEN /\ setupResult' = "TypeError"
                  /\ UNCHANGED <<endPosition, asteroid, trajectory,
                                 trajectoryLine, isActive, impactsFired>>
             ELSE /\ endPosition' = config.endPosition
                  /\ asteroid' = Mesh(config.startPosition)
                  /\ trajectory' =
                       generateTrajectoryPoints(config.startPosition,
                                                config.endPosition,
                                                Date(simulationDate),
                                                newDate(config.impactDate))
                  /\ trajectoryLine' = TRUE
                  /\ isActive' = TRUE
                  /\ impactsFired' = 0
                  /\ setupResult' = "true"
  /\ UNCHANGED <<cleanupTimers, isPlaying>>

\* reset()
reset ==
  /\ asteroid' = null
  /\ trajectoryLine' = FALSE
  /\ isActive' = FALSE
  /\ trajectory' = << >>

\* the callback triggerImpact scheduled: removes the asteroid and the line,
\* deactivates, plays the crash video
cleanupTimeout ==
  /\ cleanupTimers > 0
  /\ cleanupTimers' = cleanupTimers - 1
  /\ asteroid' = null
  /\ trajectoryLine' = FALSE
  /\ isActive' = FALSE
  /\ isPlaying' = TRUE
  /\ UNCHANGED <<startPosition, endPosition, impactDate, startDate, trajectory,
                 impactsFired, setupResult, setups>>

\* CrashVideo.completeCrashVideo, whose onComplete is reset()
completeCrashVideo ==
  /\ isPlaying
  /\ isPlaying' = FALSE
  /\ reset
  /\ UNCHANGED <<startPosition, endPosition, impactDate, startDate,
                 cleanupTimers, impactsFired, setupResult, setups>>

-----------------------------------------------------------------------------
(* The clock on its own: the user's controls and the per-frame tick *)

InitClock ==
  /\ isPaused = FALSE
  /\ currentSpeedIndex = defaultSpeedIndex
  /\ simulationDate = initialSimulationDate
  /\ lastFrameTime = 0
  /\ earthOrbitAngle = 0
  /\ isDragging = FALSE
  /\ SETTINGS = InitialSettings
  /\ now = 0

InitCamera ==
  /\ variant \in Variants
  /\ selectedPlanet = "null"
  /\ isMovingTowardsPlanet = FALSE
  /\ targetCameraPosition = Origin
  /\ offset = 0
  /\ isPlanetInfoVisible = FALSE
  /\ isTrackingPlanet = FALSE
  /\ trackedPlanet = "null"
  /\ cameraRelativePosition = Origin
  /\ isZoomingOut = FALSE
  /\ cameraPosition = initialPosition
  /\ controls = [enabled |-> TRUE, target |-> Origin]
  /\ orbitSlot = 0
  /\ frameScheduled = TRUE
  /\ lastPointerDown = "none"
  /\ pointerDowns = 0
  /\ infoClosedFor = "null"

InitTrajectory ==
  /\ trajectoryVariant \in TrajectoryVariants
  /\ asteroid = null
  /\ isActive = FALSE
  /\ startPosition = Origin
  /\ endPosition = Origin
  /\ impactDate = NullDate
  /\ startDate = NullDate
  /\ trajectory = << >>
  /\ trajectoryLine = FALSE
  /\ cleanupTimers = 0
  /\ isPlaying = FALSE
  /\ impactsFired = 0
  /\ setupResult = "none"
  /\ setups = 0
  /\ effects = {}
  /\ timers = {}
  /\ rawProgress = 0
  /\ easedProgress = NaN

\* AnimationSystem as constructed
InitLoop == isAnimating = FALSE /\ pendingFrames = 0

\* the loop once App has called start(): the first frame has requested the
\* next one
LoopStarted == isAnimating = TRUE /\ pendingFrames = 1

\* the bodies as PlanetSystem places them.  Rotations in thousandths of a
\* radian (the belt's in ten-thousandths), moonAngle the argument of the
\* moon's cos and sin in units of moon.orbitSpeed.
InitBodies ==
  bodies = [sunRotation |-> 0, planetRotation |-> 0, moonAngle |-> 0,
            asteroidRotationY |-> 0, asteroidOrbit |-> 0]

InitAll ==
  InitClock /\ InitCamera /\ InitTrajectory /\ LoopStarted /\ InitBodies

\* the clock runs the same under either variant of the other two systems
Init == InitAll /\ variant = "tracking" /\ trajectoryVariant = "enhanced"

Tick == \E d \in Deltas : now + d <= MaxNow /\ updateSimulationTime(d)

DragMove == \E x \in MouseXs : documentMouseMove(x)

Next ==
  \/ prevSpeedClick /\ UNCHANGED <<cameraVars, trajectoryVars, loopVars, bodies>>
  \/ nextSpeedClick /\ UNCHANGED <<cameraVars, trajectoryVars, loopVars, bodies>>
  \/ indicatorMouseDown /\ UNCHANGED <<cameraVars, trajectoryVars, loopVars, bodies>>
  \/ DragMove /\ UNCHANGED <<cameraVars, trajectoryVars, loopVars, bodies>>
  \/ documentMouseUp /\ UNCHANGED <<cameraVars, trajectoryVars, loopVars, bodies>>
  \/ togglePause /\ UNCHANGED <<cameraVars, trajectoryVars, loopVars, bodies>>
  \/ pause /\ UNCHANGED <<cameraVars, trajectoryVars, loopVars, bodies>>
  \/ resume /\ UNCHANGED <<cameraVars, trajectoryVars, loopVars, bodies>>
  \/ Tick /\ UNCHANGED <<cameraVars, trajectoryVars, loopVars, bodies>>

Spec == Init /\ [][Next]_vars

-----------------------------------------------------------------------------
(* The clock over a year: ticks of one frame and of 365.25 s, the speed
   controls within YearSpeeds *)

YearTick ==
  \E d \in YearDeltas :
    /\ now + d <= MaxYearNow
    /\ updateSimulationTime(d)
    /\ UNCHANGED <<cameraVars, trajectoryVars, loopVars, bodies>>

YearSlower ==
  /\ currentSpeedIndex - 1 \in YearSpeeds
  /\ prevSpeedClick
  /\ UNCHANGED <<cameraVars, trajectoryVars, loopVars, bodies>>

YearFaster ==
  /\ currentSpeedIndex + 1 \in YearSpeeds
  /\ nextSpeedClick
  /\ UNCHANGED <<cameraVars, trajectoryVars, loopVars, bodies>>

YearPause == togglePause /\ UNCHANGED <<cameraVars, trajectoryVars, loopVars, bodies>>

NextYear == YearTick \/ YearSlower \/ YearFaster \/ YearPause

SpecYear == Init /\ [][NextYear]_vars

-----------------------------------------------------------------------------
(* The camera focus machine: pointer-downs, the close button, frames *)

PointerDown ==
  \E clicked \in PointerTargets :
    onMouseDown(clicked) /\ UNCHANGED <<clockRest, variant, trajectoryVars, loopVars, bodies>>

\* the close button of the panel is pressed while the panel shows;
\* window.closeInfo() is also called before any pointer-down, nothing selected
CloseInfo ==
  /\ isPlanetInfoVisible \/ pointerDowns = 0
  /\ closeInfo
  /\ UNCHANGED <<clockRest, variant, trajectoryVars, loopVars, bodies>>

Frame ==
  /\ animate
  /\ pendingFrames' = IF frameScheduled' THEN pendingFrames ELSE pendingFrames - 1
  /\ UNCHANGED <<clockRest, variant, trajectoryVars, isAnimating, bodies>>

NextCamera == PointerDown \/ CloseInfo \/ Frame

InitCameraMachine == InitAll /\ trajectoryVariant = "enhanced"

SpecCamera == InitCameraMachine /\ [][NextCamera]_vars

\* requestAnimationFrame keeps calling animate() for as long as the previous
\* frame has requested the next one
SpecCameraFrames == SpecCamera /\ WF_vars(Frame)

-----------------------------------------------------------------------------
(* The impact trajectory under the clock: set-ups, frames, timers, and the
   speed controls within TrajectorySpeeds *)

SetupAsteroidImpact ==
  \E config \in Configs :
    /\ setups < MaxSetups
    /\ setupTrajectory(config)
    /\ UNCHANGED <<clockVars, cameraVars, trajectoryVariant, effectVars,
                   easingVars, loopVars, bodies>>

\* one animate() frame as the trajectory sees it: the clock ticks, then
\* updateAsteroidTrajectory reads the new date
TrajectoryFrame ==
  \E d \in Deltas :
    /\ now + d <= MaxTrajectoryNow
    /\ updateSimulationTime(d)
    /\ updateAsteroidTrajectory(Date(simulationDate'))
    /\ UNCHANGED <<cameraVars, trajectoryVariant, easingVars, loopVars, bodies>>

CleanupTimeout ==
  cleanupTimeout
    /\ UNCHANGED <<clockVars, cameraVars, trajectoryVariant, effectVars,
                   easingVars, loopVars, bodies>>

CrashVideoEnds ==
  completeCrashVideo
    /\ UNCHANGED <<clockVars, cameraVars, trajectoryVariant, effectVars,
                   easingVars, loopVars, bodies>>

SlowerOrReverse ==
  /\ currentSpeedIndex - 1 \in TrajectorySpeeds
  /\ prevSpeedClick
  /\ UNCHANGED <<cameraVars, trajectoryVars, loopVars, bodies>>

FasterOrForward ==
  /\ currentSpeedIndex + 1 \in TrajectorySpeeds
  /\ nextSpeedClick
  /\ UNCHANGED <<cameraVars, trajectoryVars, loopVars, bodies>>

PlayPause == togglePause /\ UNCHANGED <<cameraVars, trajectoryVars, loopVars, bodies>>

NextTrajectory ==
  \/ SetupAsteroidImpact
  \/ TrajectoryFrame
  \/ CleanupTimeout
  \/ CrashVideoEnds
  \/ SlowerOrReverse
  \/ FasterOrForward
  \/ PlayPause

InitTrajectoryRun == InitAll /\ variant = "tracking"

SpecTrajectory == InitTrajectoryRun /\ [][NextTrajectory]_vars

-----------------------------------------------------------------------------
(* The impact sequence: set-ups, asteroid switches, frames, and the timers
   and intervals an impact starts *)

\* App.switchToAsteroid(index): reset(), then setupTrajectory() with the
\* configuration of that index; every field reset() clears is stored again by
\* the set-up that follows it
switchToAsteroid(index) == setupTrajectory(ASTEROIDS_CONFIG[index])

SwitchToAsteroid ==
  \E index \in 1 .. Len(ASTEROIDS_CONFIG) :
    /\ setups < MaxSetups
    /\ switchToAsteroid(index)
    /\ UNCHANGED <<clockVars, cameraVars, trajectoryVariant, effectVars,
                   easingVars, loopVars, bodies>>

\* one animate() frame; a frame that would start the effects of one more
\* impact than MaxOverlap is left out
ImpactFrame ==
  \E d \in Deltas :
    /\ now + d <= MaxImpactNow
    /\ updateSimulationTime(d)
    /\ updateAsteroidTrajectory(Date(simulationDate'))
    /\ timers' # timers => Cardinality({t.impact : t \in timers}) < MaxOverlap
    /\ UNCHANGED <<cameraVars, trajectoryVariant, easingVars, loopVars, bodies>>

TimerFires ==
  /\ timerFires
  /\ UNCHANGED <<clockVars, variant, interactionVars, controls, orbitSlot,
                 frameScheduled, observedVars, trajectoryVariant,
                 trajectoryFields, cleanupTimers, isPlaying, impactsFired,
                 setupResult, setups, easingVars, loopVars, bodies>>

NextImpact ==
  \/ SwitchToAsteroid
  \/ ImpactFrame
  \/ CleanupTimeout
  \/ CrashVideoEnds
  \/ TimerFires

SpecImpact == InitTrajectoryRun /\ [][NextImpact]_vars

\* setTimeout and setInterval callbacks that are due do run
SpecImpactTimers == SpecImpact /\ WF_vars(TimerFires)

-----------------------------------------------------------------------------
(* The animation loop: start(), stop(), the requestAnimationFrame callbacks,
   and the play/pause button *)

\* animateSun, the self-rotation of animatePlanets (Earth's), animateMoons
\* (a sphere moon) and animateAsteroids, reading the SETTINGS the tick of the
\* same frame has written and performance.now()
animateBodies(settings, time) ==
  [sunRotation |-> bodies.sunRotation + settings.acceleration,
   planetRotation |-> bodies.planetRotation + 5 * settings.acceleration,
   moonAngle |-> time * settings.accelerationOrbit[2],
   asteroidRotationY |->
     bodies.asteroidRotationY + (IF settings.acceleration >= 0 THEN 1 ELSE 0 - 1),
   asteroidOrbit |-> bodies.asteroidOrbit + settings.accelerationOrbit[2]]

\* the body of animate() past its first line, entered from `taken` pending
\* callbacks: the clock ticks, the bodies, the trajectory and the camera are
\* updated, and requestAnimationFrame is reached unless updateCameraMovement
\* has thrown
runFrame(taken) ==
  \E d \in Deltas :
    /\ now + d <= MaxLoopNow
    /\ updateSimulationTime(d)
    /\ bodies' = animateBodies(SETTINGS', now')
    /\ updateAsteroidTrajectory(Date(simulationDate'))
    /\ animate
    /\ pendingFrames' = pendingFrames - taken + (IF frameScheduled' THEN 1 ELSE 0)
    /\ UNCHANGED <<variant, trajectoryVariant, easingVars>>

\* a callback that skips the first line of animate()
neverReturnsEarly == FALSE

\* if (!this.isAnimating) return;
animateReturnsEarly == ~isAnimating

\* start(): a first frame at once, unless the loop is on already
start ==
  IF isAnimating
  THEN UNCHANGED vars
  ELSE isAnimating' = TRUE /\ runFrame(0)

\* stop()
stop == isAnimating' = FALSE

\* a pending requestAnimationFrame callback runs animate()
animationCallback ==
  IF animateReturnsEarly
  THEN /\ pendingFrames' = pendingFrames - 1
       /\ UNCHANGED <<clockVars, cameraVars, trajectoryVars, isAnimating,
                      bodies>>
  ELSE runFrame(1) /\ UNCHANGED isAnimating

Start == pendingFrames < MaxPending /\ start

Stop ==
  /\ stop
  /\ UNCHANGED <<clockVars, cameraVars, trajectoryVars, pendingFrames, bodies>>

AnimationCallback == pendingFrames > 0 /\ animationCallback

LoopPlayPause == togglePause /\ UNCHANGED <<cameraVars, trajectoryVars, loopVars, bodies>>

NextLoop == Start \/ Stop \/ AnimationCallback \/ LoopPlayPause

InitLoopRun ==
  /\ InitClock /\ InitCamera /\ InitTrajectory /\ InitLoop /\ InitBodies
  /\ variant = "tracking" /\ trajectoryVariant = "enhanced"

SpecLoop == InitLoopRun /\ [][NextLoop]_vars

-----------------------------------------------------------------------------
(* applyGravitationalAcceleration on its own, applied to every progress of
   the grid *)

InitEasing ==
  /\ InitClock /\ InitCamera /\ variant = "tracking" /\ LoopStarted
  /\ InitBodies
  /\ trajectoryVariant = "enhanced"
  /\ asteroid = null
  /\ isActive = FALSE
  /\ startPosition = Origin
  /\ endPosition = Origin
  /\ impactDate = NullDate
  /\ startDate = NullDate
  /\ trajectory = << >>
  /\ trajectoryLine = FALSE
  /\ cleanupTimers = 0
  /\ isPlaying = FALSE
  /\ impactsFired = 0
  /\ setupResult = "none"
  /\ setups = 0
  /\ effects = {}
  /\ timers = {}
  /\ rawProgress \in 0 .. ProgressScale
  /\ easedProgress = NaN

ApplyEasing ==
  /\ easedProgress = NaN
  /\ easedProgress' = applyGravitationalAcceleration(rawProgress)
  /\ UNCHANGED <<clockVars, cameraVars, trajectoryVariant, trajectoryFields,
                 cleanupTimers, isPlaying, impactsFired, setupResult, setups,
                 effectVars, rawProgress, loopVars, bodies>>

NextEasing == ApplyEasing

SpecEasing == InitEasing /\ [][NextEasing]_vars

-----------------------------------------------------------------------------
(* Claims about the clock *)

\* C1: in every reachable state of the clock, the freshly constructed one
\* included, the simulated date equals epoch + (angle / 2*pi) * 365.25 days.
C1_DateDerivedFromAngle ==
  simulationDate =
    startingDate + millisecondsElapsed(earthOrbitAngle - startingOrbitAngle)

\* C2: every updateSimulationTime tick taken while the clock is paused, with
\* any wall-clock delta, leaves the simulated date and the Earth orbit angle
\* unchanged and leaves SETTINGS.acceleration and SETTINGS.accelerationOrbit
\* at exactly 0.
C2_PauseFreeze ==
  [][\A d \in Deltas :
       (isPaused /\ updateSimulationTime(d)) =>
         /\ simulationDate' = simulationDate
         /\ earthOrbitAngle' = earthOrbitAngle
         /\ SETTINGS'.acceleration = 0
         /\ SETTINGS'.accelerationOrbit = Zero]_vars

\* a paused tick has run after the clock had moved
C2_Witness ==
  /\ isPaused
  /\ SETTINGS.acceleration = 0
  /\ SETTINGS.accelerationOrbit = Zero
  /\ earthOrbitAngle # 0

\* C3: after any sequence of previous-speed clicks, next-speed clicks and
\* drag moves at any pointer x, currentSpeedIndex is an integer in
\* [0, speedModes.length - 1]; a previous-speed click at index 0 and a
\* next-speed click at the last index change nothing.
C3_SpeedIndexBounded ==
  /\ [](currentSpeedIndex \in 0 .. (Len(speedModes) - 1))
  /\ [][/\ (prevSpeedClick /\ currentSpeedIndex = 0) => UNCHANGED vars
        /\ (nextSpeedClick /\ currentSpeedIndex = Len(speedModes) - 1)
             => UNCHANGED vars]_vars

\* a drag has carried the index from the centre to the last mode
C3_Witness ==
  /\ isDragging
  /\ currentSpeedIndex = Len(speedModes) - 1

\* the clock as its constructor leaves it
FreshClock ==
  /\ now = 0
  /\ lastFrameTime = 0
  /\ earthOrbitAngle = startingOrbitAngle
  /\ simulationDate = initialSimulationDate

C18_RenderedOrbitInStep ==
  [][(~isPaused /\ updateSimulationTime(1))
     => LET m == multiplier(currentSpeedIndex)
            rendered == earthOrbitRotation(SETTINGS')
        IN /\ SETTINGS'.accelerationOrbit[1] = 0
           /\ rendered = earthOrbitAngle' - earthOrbitAngle
           /\ rendered * TwoPi = directionMultiplier(m) * TwoPi * Abs(m)
           /\ TwoPi % Abs(m) = 0
                => rendered * targetFramesForOneOrbit(m)
                     = directionMultiplier(m) * TwoPi]_vars

\* the first frame has run at +5 DAYS/S
C18_Witness ==
  /\ ~isPaused
  /\ multiplier(currentSpeedIndex) = 50
  /\ now = 1
  /\ earthOrbitAngle = 50
  /\ earthOrbitRotation(SETTINGS) = 50

\* C19: for every pair of speed modes with multipliers m and -m, the
\* SETTINGS.accelerationOrbit an unpaused tick writes at m is the negative of
\* the one it writes at -m: same magnitude, opposite sign, neither zero.
C19_OrbitScaleAntisymmetric ==
  [][\A d \in Deltas : \A j \in 0 .. (Len(speedModes) - 1) :
       (/\ ~isPaused
        /\ updateSimulationTime(d)
        /\ multiplier(j) = -multiplier(currentSpeedIndex))
       => LET written == SETTINGS'.accelerationOrbit
              mirrored == Num(0, requiredAcceleration(multiplier(j))
                                   * directionMultiplier(multiplier(j)))
          IN /\ written[1] = 0
             /\ written[2] = -mirrored[2]
             /\ Abs(written[2]) = Abs(mirrored[2])
             /\ written[2] # 0
             /\ (written[2] > 0) = (multiplier(currentSpeedIndex) > 0)]_vars

\* a tick has run at -1 YEAR/S
C19_Witness ==
  /\ ~isPaused
  /\ multiplier(currentSpeedIndex) = -3650
  /\ SETTINGS.accelerationOrbit[2] < 0
  /\ earthOrbitAngle < 0

-----------------------------------------------------------------------------
(* Claims about the camera focus machine *)

Identifiable(clicked) == clicked # "empty" /\ identifyPlanet(clicked) # "null"

\* C4: whenever a pointer-down hits an identifiable body while the info panel
\* is not visible, right after the handler the clock is paused, whatever it
\* was before, isMovingTowardsPlanet is true and selectedPlanet is the hit body.
C4_SelectionPausesAndMoves ==
  [][\A clicked \in PointerTargets :
       (/\ ~isPlanetInfoVisible
        /\ Identifiable(clicked)
        /\ onMouseDown(clicked))
       => /\ isPaused'
          /\ isMovingTowardsPlanet'
          /\ selectedPlanet' = identifyPlanet(clicked)]_vars

\* a body has just been selected while the clock ran and an earlier zoom-out
\* was still under way
C4_Witness ==
  /\ lastPointerDown = "selected"
  /\ pointerDowns = 2
  /\ selectedPlanet = "Earth"
  /\ isZoomingOut
  /\ isMovingTowardsPlanet
  /\ isPaused

\* C5: while the info panel is visible, a pointer-down on a body or on empty
\* space leaves selectedPlanet, the moving, zooming and tracking flags, the
\* camera target position and isPaused unchanged; the selection changes only
\* in steps that start with no panel showing.
C5_PanelBlocksPointerDown ==
  /\ [][\A clicked \in PointerTargets :
          (isPlanetInfoVisible /\ onMouseDown(clicked))
          => UNCHANGED <<selectedPlanet, isMovingTowardsPlanet, isZoomingOut,
                         isTrackingPlanet, trackedPlanet, targetCameraPosition,
                         isPaused>>]_vars
  /\ [][selectedPlanet' # selectedPlanet => ~isPlanetInfoVisible]_vars

\* a pointer-down has just been swallowed by the visible panel
C5_Witness ==
  /\ lastPointerDown = "ignored"
  /\ isPlanetInfoVisible
  /\ selectedPlanet = "Earth"
  /\ isPaused

\* C9: every closeInfo() call, in both variants and whatever is selected, ends
\* with the info panel hidden and the clock resumed.
C9_CloseInfoHidesAndResumes ==
  [][closeInfo => (~isPlanetInfoVisible' /\ ~isPaused')]_vars

\* the zoom-out variant has closed the panel of a planet and runs again
C9_Witness ==
  /\ variant = "zoomOut"
  /\ infoClosedFor = "Earth"
  /\ isZoomingOut
  /\ ~isPlanetInfoVisible
  /\ ~isPaused

\* C10: in the tracking variant, after closeInfo() on a selected non-Sun body
\* and until the next body selection or empty-space click, the camera position
\* at the end of every updateCameraMovement() is the body's world position
\* plus (-175, 115, 5), whatever happened before the selection.
C10_TrackedCameraFollowsBody ==
  [][(/\ variant = "tracking"
      /\ infoClosedFor \notin {"null", "Sun"}
      /\ animate)
     => cameraPosition' =
          add(getWorldPosition(infoClosedFor, orbitSlot'), overheadOffset)]_vars

\* the camera machine is out of Idle: MovingToTarget, ShowingInfo, ZoomingOut
\* or Tracking
NonIdle ==
  isMovingTowardsPlanet \/ isPlanetInfoVisible \/ isZoomingOut \/ isTrackingPlanet

\* C11: a pointer-down on empty space in any non-Idle camera state ends with
\* tracking stopped, the clock resumed, the controls enabled and no zoom-out
\* started.
C11_EmptyClickFreesCamera ==
  [][(NonIdle /\ onMouseDown("empty"))
     => /\ ~isTrackingPlanet'
        /\ ~isPaused'
        /\ controls'.enabled
        /\ (isZoomingOut' => isZoomingOut)]_vars

\* C12: a pointer-down on another body while the info panel shows ends with
\* the panel hidden, isTrackingPlanet and isZoomingOut false, and the camera
\* moving towards the newly clicked body.
C12_ClickOtherBodySwitches ==
  [][\A clicked \in PointerTargets :
       (/\ isPlanetInfoVisible
        /\ Identifiable(clicked)
        /\ identifyPlanet(clicked) # selectedPlanet
        /\ onMouseDown(clicked))
       => /\ ~isPlanetInfoVisible'
          /\ ~isTrackingPlanet'
          /\ ~isZoomingOut'
          /\ isMovingTowardsPlanet'
          /\ selectedPlanet' = identifyPlanet(clicked)]_vars

\* C13: a zoom-out never lasts for ever: whenever isZoomingOut is true, frames
\* keep coming and the camera has not reached the overview position, the
\* zoom-out is cancelled after a bounded time, so isZoomingOut becomes false.
C13_ZoomingOutEnds == isZoomingOut ~> ~isZoomingOut

-----------------------------------------------------------------------------
(* Claims about the impact trajectory *)

\* C6: for one configured trajectory the impact fires exactly once: no
\* trajectory sees a second triggerImpact before a new setupTrajectory(), and
\* the frame in which impact fires ends with getIsActive() false.
C6_ImpactFiresOnce ==
  /\ [](impactsFired <= 1)
  /\ [][impactsFired' > impactsFired => ~isActive']_vars

\* C7 as stated: an active trajectory fires impact in the first frame whose
\* date is at or after impactDate, never in a frame whose date is before
\* impactDate, and in every frame whose date is before startDate the asteroid
\* is at startPosition.
C7_PinnedWheneverBeforeStart ==
  [][(TrajectoryFrame /\ isActive)
     => LET currentDate == Date(simulationDate')
        IN /\ (dateGE(currentDate, impactDate) /\ impactsFired = 0)
                => impactsFired' = 1
           /\ impactsFired' > impactsFired => dateGE(currentDate, impactDate)
           /\ dateLT(currentDate, startDate)
                => asteroid' = Mesh(startPosition)]_vars

\* C7, amended: an active trajectory fires impact in the first frame whose
\* date is at or after impactDate and never in a frame whose date is before
\* impactDate; in every frame whose date is before startDate and before
\* impactDate the asteroid is at startPosition.
C7_ImpactFirstThenPinnedBeforeStart ==
  [][(TrajectoryFrame /\ isActive)
     => LET currentDate == Date(simulationDate')
        IN /\ (dateGE(currentDate, impactDate) /\ impactsFired = 0)
                => impactsFired' = 1
           /\ impactsFired' > impactsFired => dateGE(currentDate, impactDate)
           /\ (dateLT(currentDate, startDate)
                 /\ ~dateGE(currentDate, impactDate))
                => asteroid' = Mesh(startPosition)]_vars

\* impact has fired in a frame whose date is exactly impactDate, the clock
\* not having run at REAL RATE throughout
C7_Witness ==
  /\ impactsFired = 1
  /\ impactDate = Date(simulationDate)
  /\ dateLT(startDate, impactDate)
  /\ asteroid = Mesh(endPosition)
  /\ earthOrbitAngle # now

\* C15: for a trajectory with startDate < impactDate, a frame that takes the
\* date from d0 to d1 with startDate <= d0 <= d1 <= impactDate has progress
\* values within [0, 1] that do not decrease; before impactDate the asteroid
\* is placed at that progress and no impact fires; at d1 = impactDate the
\* progress is exactly 1, impact fires and the asteroid is at endPosition.
C15_ProgressMonotoneToImpact ==
  [][(/\ TrajectoryFrame
      /\ isActive
      /\ asteroid # null
      /\ dateLT(startDate, impactDate)
      /\ dateGE(Date(simulationDate), startDate)
      /\ simulationDate <= simulationDate'
      /\ dateGE(impactDate, Date(simulationDate')))
     => LET p0 == progressAt(Date(simulationDate))
            p1 == progressAt(Date(simulationDate'))
        IN /\ 0 <= p0
           /\ p0 <= p1
           /\ p1 <= ProgressScale
           /\ IF impactDate = Date(simulationDate')
              THEN /\ p1 = ProgressScale
                   /\ impactsFired' = impactsFired + 1
                   /\ asteroid' = Mesh(endPosition)
              ELSE /\ p1 < ProgressScale
                   /\ impactsFired' = impactsFired
                   /\ asteroid' =
                        Mesh(lerpVectors(startPosition, endPosition, p1))]_vars

\* the asteroid is on the eased last stretch of its way, short of the impact
C15_Witness ==
  /\ isActive
  /\ trajectoryVariant = "enhanced"
  /\ dateLT(startDate, Date(simulationDate))
  /\ dateLT(Date(simulationDate), impactDate)
  /\ progressAt(Date(simulationDate)) * 10 > 7 * ProgressScale
  /\ asteroid = Mesh(positionAt(Date(simulationDate)))
  /\ asteroid # Mesh(startPosition)

\* C16: applyGravitationalAcceleration(p) is p for p in [0, 0.7] and
\* 0.7 + ((p - 0.7) / 0.3)^2 * 0.3 for p in (0.7, 1]; the two expressions agree
\* at 0.7 and the value one grid step above 0.7 is within one grid step of
\* 0.7; no smaller argument has a larger value; 0.85 goes to 0.775, 0 to 0 and
\* 1 to 1.
C16_EasingShape ==
  easedProgress # NaN
  => LET p07 == (7 * ProgressScale) \div 10
         p03 == (3 * ProgressScale) \div 10
         quadratic(p) == p07 + RoundDiv((p - p07) * (p - p07), p03)
     IN /\ easedProgress =
             IF rawProgress <= p07 THEN rawProgress ELSE quadratic(rawProgress)
        /\ applyGravitationalAcceleration(p07) = quadratic(p07)
        /\ applyGravitationalAcceleration(p07 + 1) - p07 \in 0 .. 1
        /\ \A q \in 0 .. rawProgress :
             applyGravitationalAcceleration(q) <= easedProgress
        /\ rawProgress = (85 * ProgressScale) \div 100
             => easedProgress = (775 * ProgressScale) \div 1000
        /\ rawProgress = 0 => easedProgress = 0
        /\ rawProgress = ProgressScale => easedProgress = ProgressScale

\* the function has been applied to raw progress 0.85
C16_Witness ==
  /\ rawProgress = (85 * ProgressScale) \div 100
  /\ easedProgress = (775 * ProgressScale) \div 1000

\* C20: once impact has fired and the trajectory has been deactivated, a
\* setupTrajectory() of a well-formed config that no reset() precedes starts
\* nothing: the asteroid is as it was and isActive stays false.
C20_SetupNeedsReset ==
  [][\A i \in 1 .. Len(ASTEROIDS_CONFIG) :
       (/\ impactsFired > 0
        /\ ~isActive
        /\ Len(trajectory) > 0
        /\ setupTrajectory(ASTEROIDS_CONFIG[i]))
       => /\ ~isActive'
          /\ asteroid' = asteroid]_vars

\* C21: every setupTrajectory(config) that returns true leaves endPosition at
\* calculateEarthPosition(impactDate), Earth's predicted place at the impact
\* date.
C21_EndPositionIsEarthAtImpact ==
  [][\A config \in Configs :
       (setupTrajectory(config) /\ setupResult' = "true")
       => endPosition' = calculateEarthPosition(impactDate')]_vars

\* every object an impact effect can add to the scene
EffectObjects ==
  {Effect(kind, impact, 0) :
     kind \in {"flash", "explosion", "shockwave", "debrisGroup"},
     impact \in 1 .. MaxImpactNow}
    \cup {Effect("secondaryExplosion", impact, index) :
            impact \in 1 .. MaxImpactNow, index \in 0 .. numSecondary - 1}

\* C22: as long as due timers keep running, every object an impact adds to
\* the scene (flash, main explosion, shockwave, debris cloud, each secondary
\* explosion) is eventually removed from it, whatever set-ups, asteroid
\* switches, frames, clean-ups and crash-video ends come in between.
C22_EffectsEventuallyRemoved ==
  \A o \in EffectObjects : []<>(o \notin effects)

\* two impacts' effects have all come and gone across a second set-up: the
\* scene holds none of them and no effect timer is pending
C22_Witness ==
  /\ effects = {} /\ timers = {}
  /\ cleanupTimers > 1 /\ setups > 1

\* the fields of the clock and of the camera focus machine, and the camera's
\* place
clockAndFocus ==
  <<isPaused, currentSpeedIndex, earthOrbitAngle, simulationDate,
    selectedPlanet, isMovingTowardsPlanet, isZoomingOut, isTrackingPlanet,
    targetCameraPosition, isPlanetInfoVisible, cameraPosition>>

\* a callback the impact sequence scheduled runs: an effect timer or
\* interval, or the one-second clean-up
ImpactTimerStep == TimerFires \/ CleanupTimeout

\* C23 as stated: no timer or interval callback of the impact sequence
\* changes a clock field or a camera focus field, and none changes anything
\* but scene membership (the asteroid, the trajectory line, the effect
\* objects) and the effect timers.
C23_TimersChangeOnlyScene ==
  [][ImpactTimerStep =>
       UNCHANGED <<clockAndFocus, isActive, isPlaying>>]_vars

\* C23, amended: no timer or interval callback of the impact sequence
\* changes a clock field, a camera focus field or the camera position; the
\* effect timers and intervals change nothing but the effect objects in the
\* scene and the timers themselves.
C23_TimersLeaveClockAndFocus ==
  [][/\ ImpactTimerStep => UNCHANGED clockAndFocus
     /\ TimerFires => UNCHANGED <<clockVars, cameraVars, trajectoryVariant,
                                  trajectoryFields, cleanupTimers, isPlaying,
                                  impactsFired, setupResult, setups>>]_vars

\* the clean-up has run and started the crash video while an interval of
\* the impact effects has run and is still going
C23_Witness == isPlaying /\ \E t \in timers : t.ticks > 0

\* what a frame of the loop updates: the clock, the bodies, the camera
frameUpdated ==
  <<now, lastFrameTime, earthOrbitAngle, simulationDate, SETTINGS, bodies,
    orbitSlot, cameraPosition>>

\* C24: after stop(), a pending animation callback that runs returns at its
\* first check: it updates neither the clock nor the bodies nor the camera
\* and schedules no callback; and as long as the loop stays stopped (no
\* start()), no step updates them or adds a pending callback.
C24_StoppedLoopRunsNoFrame ==
  [][/\ (~isAnimating /\ AnimationCallback)
          => /\ UNCHANGED <<frameUpdated, isAnimating>>
             /\ pendingFrames' = pendingFrames - 1
     /\ (~isAnimating /\ ~isAnimating')
          => /\ UNCHANGED frameUpdated
             /\ pendingFrames' <= pendingFrames]_vars

\* the loop has run, was stopped, and the callback its last frame had
\* scheduled has come and gone
C24_Witness == ~isAnimating /\ pendingFrames = 0 /\ now > 0

\* C29: at most one animation callback is pending at any time, for any
\* interleaving of start(), stop() and callbacks.
C29_AtMostOnePending == pendingFrames <= 1

\* C25: a frame of the running loop taken while the clock is paused leaves
\* every body transform as it was: the sun's and the planets' self-rotation,
\* the planets' place on their orbits, the moons' positions, and the belt
\* asteroids' rotation and position.
C25_PausedFrameKeepsBodies ==
  [][(isPaused /\ isAnimating /\ AnimationCallback)
       => UNCHANGED <<bodies, orbitSlot>>]_vars

\* the phase flags of the camera focus machine that hold
phaseFlags ==
  {f \in {"isMovingTowardsPlanet", "isPlanetInfoVisible", "isZoomingOut",
          "isTrackingPlanet"} :
     CASE f = "isMovingTowardsPlanet" -> isMovingTowardsPlanet
       [] f = "isPlanetInfoVisible" -> isPlanetInfoVisible
       [] f = "isZoomingOut" -> isZoomingOut
       [] f = "isTrackingPlanet" -> isTrackingPlanet}

\* C26: in every reachable state at most one of isMovingTowardsPlanet,
\* isPlanetInfoVisible, isZoomingOut and isTrackingPlanet holds.
C26_OnePhaseAtATime == Cardinality(phaseFlags) <= 1

\* C27: with the play/pause button never pressed, the clock is paused in
\* every state in which the info panel is visible.
C27_PanelImpliesPaused == isPlanetInfoVisible => isPaused

\* C28: the clean-up callback of an impact of an earlier trajectory (more
\* callbacks are pending than the trajectory set up last has fired impacts;
\* they run oldest first) leaves the asteroid and the line of the trajectory
\* set up since in the scene and leaves that trajectory active.
C28_StaleCleanupSparesNewTrajectory ==
  [][(cleanupTimers > impactsFired /\ CleanupTimeout)
       => UNCHANGED <<asteroid, trajectoryLine, isActive>>]_vars

\* C30: every step changes the Earth orbit angle by multiplier * (wall time
\* since the preceding tick) if it is a tick of the unpaused clock, and not at
\* all otherwise; so the first tick after resume() credits only the time
\* since the last paused tick, and the angle is the sum of multiplier * delta
\* over the unpaused ticks.  (Angles in units of 2*pi / 219150, multipliers
\* in tenths of a day per second, time in frames.)
C30_PausedTimeNotCredited ==
  [][earthOrbitAngle' =
       earthOrbitAngle
         + (IF isPaused THEN 0 ELSE multiplier(currentSpeedIndex) * (now' - now))]_vars

\* the clock ran one frame at REAL RATE since a resume(), after at least two
\* frames of pause
C30_Witness ==
  /\ ~isPaused /\ SETTINGS.acceleration = 1
  /\ earthOrbitAngle = 1 /\ now > 2

\* C8: setupTrajectory(config) with a malformed config returns failure
\* instead of throwing and leaves startPosition, endPosition, impactDate,
\* startDate, the trajectory samples, the scene objects and isActive unchanged.
C8_MalformedSetupFailsCleanly ==
  [][\A config \in MalformedConfigs :
       setupTrajectory(config)
       => /\ setupResult' = "false"
          /\ UNCHANGED trajectoryFields]_vars

====
